---------------------------- MODULE Spec2Model ----------------------------
(***************************************************************************)
(* Model of the chat controller (src/src/controllers/chat.ts) over the     *)
(* ChatSession collection (src/src/models/chat.ts).                        *)
(*                                                                         *)
(* Every HTTP request runs as its own asynchronous task.  A task executes  *)
(* atomically from one `await` to the next, so each action below is the    *)
(* code between two awaits of a handler: it consumes the outcome of the    *)
(* awaited call, runs the synchronous code that follows and issues the     *)
(* next call.  The collaborators (MongoDB, Inngest, Gemini) are the        *)
(* environment: their outcomes are chosen with \E.                         *)
(*                                                                         *)
(* Text is a sequence of tokens.  A token is a whitespace character, a     *)
(* code-fence marker or a chunk of characters holding neither whitespace   *)
(* at its ends nor backticks, so trim() and the two fence-stripping        *)
(* regular expressions act on token sequences as they act on the           *)
(* characters.  Timestamps are not modelled.                               *)
(***************************************************************************)
EXTENDS Naturals, Sequences, FiniteSets

(***************************************************************************)
(* Bounds                                                                  *)
(***************************************************************************)
\* number of request tasks (each serves one request; they run concurrently)
NumReq == 2
\* longest request-body message text, in tokens
MaxMsgLen == 2

Reqs == 1..NumReq

(***************************************************************************)
(* Text: trim() and the code-fence regular expressions                     *)
(***************************************************************************)
SP == " "
NL == "\n"
\* the three-backtick fence marker followed by json
FenceJson == "[fence]json"
\* the three-backtick fence marker
Fence == "[fence]"

Whitespace == {SP, NL}

RECURSIVE TrimStart(_)
TrimStart(s) ==
    IF s = <<>> THEN <<>>
    ELSE IF Head(s) \in Whitespace THEN TrimStart(Tail(s))
    ELSE s

RECURSIVE TrimEnd(_)
TrimEnd(s) ==
    IF s = <<>> THEN <<>>
    ELSE IF s[Len(s)] \in Whitespace THEN TrimEnd(SubSeq(s, 1, Len(s) - 1))
    ELSE s

\* String.prototype.trim
Trim(s) == TrimEnd(TrimStart(s))

\* first replace of cleanAnalysisText: every json fence marker is removed,
\* with the newline that follows it if there is one
RECURSIVE StripFenceJson(_)
StripFenceJson(s) ==
    IF s = <<>> THEN <<>>
    ELSE IF Head(s) = FenceJson
         THEN IF Len(s) >= 2 /\ s[2] = NL
              THEN StripFenceJson(Tail(Tail(s)))
              ELSE StripFenceJson(Tail(s))
    ELSE <<Head(s)>> \o StripFenceJson(Tail(s))

\* second replace of cleanAnalysisText: every fence marker is removed, with
\* the newline that precedes it if there is one
RECURSIVE StripFence(_)
StripFence(s) ==
    IF s = <<>> THEN <<>>
    ELSE IF Head(s) = NL /\ Len(s) >= 2 /\ s[2] = Fence
         THEN StripFence(Tail(Tail(s)))
    ELSE IF Head(s) = Fence THEN StripFence(Tail(s))
    ELSE <<Head(s)>> \o StripFence(Tail(s))

\* cleanAnalysisText
CleanAnalysisText(analysisText) ==
    Trim(StripFence(StripFenceJson(analysisText)))


(***************************************************************************)
(* JavaScript values                                                       *)
(***************************************************************************)
\* A value of req.body.message: undefined, a number or a string.
JsUndefinedMessage == [type |-> "undefined", num |-> 0, str |-> <<>>]
JsNumberMessage(n) == [type |-> "number", num |-> n, str |-> <<>>]
JsStringMessage(s) == [type |-> "string", num |-> 0, str |-> s]

\* !message
Falsy(message) ==
    \/ message.type = "undefined"
    \/ message.type = "number" /\ message.num = 0
    \/ message.type = "string" /\ message.str = <<>>

AnalysisFields ==
    {"emotionalState", "themes", "riskLevel", "recommendedApproach",
     "progressIndicators"}

\* A value of the variable `analysis`: what JSON.parse returned, or the
\* fallback literal.  `has` is the set of own properties of an object; a
\* property outside `has` reads as undefined.
JsObject(has, es, th, rl, ra, pi) ==
    [kind |-> "object", has |-> has, emotionalState |-> es, themes |-> th,
     riskLevel |-> rl, recommendedApproach |-> ra, progressIndicators |-> pi]
JsNull == [JsObject({}, "", <<>>, 0, "", <<>>) EXCEPT !.kind = "null"]
JsNumber(n) == [JsObject({}, "", <<>>, n, "", <<>>) EXCEPT !.kind = "number"]
JsUndefined == [JsObject({}, "", <<>>, 0, "", <<>>) EXCEPT !.kind = "undefined"]

\* analysis.emotionalState, analysis.riskLevel: reading a property of null
\* or undefined throws a TypeError; of a number it gives undefined.
PropertyReadThrows(value) == value.kind \in {"null", "undefined"}

\* { emotionalState: analysis.emotionalState, riskLevel: analysis.riskLevel }
Progress(value) ==
    [has |-> IF value.kind = "object"
             THEN value.has \cap {"emotionalState", "riskLevel"} ELSE {},
     emotionalState |-> IF value.kind = "object" /\ "emotionalState" \in value.has
                        THEN value.emotionalState ELSE "",
     riskLevel |-> IF value.kind = "object" /\ "riskLevel" \in value.has
                   THEN value.riskLevel ELSE 0]
NoProgress == [has |-> {}, emotionalState |-> "", riskLevel |-> 0]

(***************************************************************************)
(* JSON texts the analysis oracle may answer with, and JSON.parse          *)
(***************************************************************************)
JsonObjectText ==
    "{\"emotionalState\":\"hopeful\",\"themes\":[\"work\"],\"riskLevel\":2,\"recommendedApproach\":\"supportive\",\"progressIndicators\":[\"insight\"]}"
JsonPartialText == "{\"themes\":[\"work\"]}"
JsonNullText == "null"
JsonNumberText == "5"
\* text that is no JSON
ProseText == "Here is the analysis:"

JsonTexts == {JsonObjectText, JsonPartialText, JsonNullText, JsonNumberText}

JsonValue(chunk) ==
    CASE chunk = JsonObjectText ->
           JsObject(AnalysisFields, "hopeful", <<"work">>, 2, "supportive",
                    <<"insight">>)
      [] chunk = JsonPartialText ->
           JsObject({"themes"}, "", <<"work">>, 0, "", <<>>)
      [] chunk = JsonNullText -> JsNull
      [] chunk = JsonNumberText -> JsNumber(5)

\* JSON.parse: one JSON value, whitespace allowed around it; anything else
\* (the empty text included) is a SyntaxError.
JsonParses(text) == Len(Trim(text)) = 1 /\ Trim(text)[1] \in JsonTexts
JsonParse(text) == JsonValue(Trim(text)[1])

(***************************************************************************)
(* Literals of sendMessage                                                 *)
(***************************************************************************)
\* FallbackAnalysis with the risk level of the telemetry payload
FallbackAnalysisRiskZero ==
    JsObject(AnalysisFields, "seeking_support", <<"anxiety_management">>, 0,
             "cognitive_behavioral", <<"active_engagement">>)

\* the fallback of the analysis try/catch
FallbackAnalysis ==
    JsObject(AnalysisFields, "seeking_support", <<"anxiety_management">>, 1,
             "cognitive_behavioral", <<"active_engagement">>)

\* the fallback of the response try/catch
FallbackResponse ==
    <<"I hear that you're looking for support with managing anxiety. That's a very common concern, and it's great that you're reaching out. There are several effective strategies we can explore together. What specific situations tend to trigger your anxiety the most?">>

(***************************************************************************)
(* The ChatSession collection                                              *)
(***************************************************************************)
Users == {"u1", "u2"}
\* req.user is absent
NoUser == "none"
SessionIds == {"s1", "s2"}

\* an element of ChatSession.messages (chatMessageSchema)
ChatMessage(role, content, hasMetadata, analysis) ==
    [role |-> role, content |-> content, hasMetadata |-> hasMetadata,
     analysis |-> analysis,
     progress |-> IF hasMetadata THEN Progress(analysis) ELSE NoProgress]

\* a ChatSession document (chatSessionSchema); an empty topic is no topic
ChatSessionDoc(sessionId, userId, messages) ==
    [exists |-> TRUE, sessionId |-> sessionId, userId |-> userId,
     messages |-> messages, topic |-> <<>>, status |-> "active"]
\* findOne found nothing
NoSession ==
    [exists |-> FALSE, sessionId |-> "", userId |-> NoUser, messages |-> <<>>,
     topic |-> <<>>, status |-> ""]

\* `content` is required: mongoose rejects a message whose content is the
\* empty string when the document is validated by save()
ValidMessage(m) == m.role \in {"user", "assistant"} /\ m.content # <<>>
ValidDoc(doc) == \A i \in DOMAIN doc.messages : ValidMessage(doc.messages[i])

(***************************************************************************)
(* HTTP responses                                                          *)
(***************************************************************************)
NoResponse ==
    [status |-> 0, keys |-> {}, message |-> <<>>, error |-> "",
     response |-> <<>>, analysis |-> JsUndefined, progress |-> NoProgress,
     details |-> "", topic |-> <<>>, messages |-> <<>>,
     session |-> NoSession]

\* res.status(status).json({ message })
StatusJson(status, message) ==
    [NoResponse EXCEPT !.status = status, !.keys = {"message"},
                       !.message = <<message>>]

\* the catch of sendMessage
ErrorJson(error) ==
    [NoResponse EXCEPT !.status = 500, !.keys = {"message", "error"},
                       !.message = <<"Error processing message">>,
                       !.error = error]

\* res.json({ response, message: response, analysis, metadata: { progress } })
ReplyJson(response, analysis) ==
    [NoResponse EXCEPT !.status = 200,
                       !.keys = {"response", "message", "analysis", "metadata"},
                       !.message = response, !.response = response,
                       !.analysis = analysis, !.progress = Progress(analysis)]

(***************************************************************************)
(* Inputs and outcomes                                                     *)
(***************************************************************************)
RECURSIVE SeqsUpTo(_, _)
SeqsUpTo(S, n) ==
    IF n = 0 THEN {<<>>}
    ELSE LET shorter == SeqsUpTo(S, n - 1)
         IN  shorter \cup {Append(t, x) : t \in shorter, x \in S}

\* req.body.message
BodyMessages ==
    {JsUndefinedMessage, JsNumberMessage(7)}
        \cup {JsStringMessage(t) : t \in SeqsUpTo({SP, "a"}, MaxMsgLen)}

\* what an awaited call of a collaborator may do
Resolved(text) == [state |-> "resolved", text |-> text]
Rejected == [state |-> "rejected", text |-> <<>>]
Pending == [state |-> "pending", text |-> <<>>]

\* analysisResult.response.text()
AnalysisTexts ==
    {<<JsonObjectText>>,
     <<FenceJson, NL, JsonObjectText, NL, Fence>>,
     <<Fence, NL, JsonObjectText, NL, Fence, NL>>,
     <<ProseText, NL, FenceJson, NL, JsonObjectText, NL, Fence>>,
     <<ProseText>>,
     <<>>,
     <<JsonPartialText>>,
     <<SP, JsonNullText, NL>>,
     <<JsonNumberText>>}

\* responseResult.response.text()
ResponseTexts == {<<NL, "Tell me more.", SP>>, <<NL>>}

(***************************************************************************)
(* State                                                                   *)
(***************************************************************************)
VARIABLES
    store,      \* the ChatSession collection: session id -> document
    pc,         \* per request: the await it is suspended on
    req,        \* per request: req.params.sessionId, req.user, req.body.message
    session,    \* per request: the document findOne returned, as modified
                \* in memory, with the messages pushed since it was loaded
    analysis,   \* per request: the local variable `analysis`
    response,   \* per request: the local variable `response`
    res,        \* per request: the HTTP response sent
    calls       \* per request: the calls made to Inngest, Gemini and save(),
                \* in order, each with its outcome

vars == <<store, pc, req, session, analysis, response, res, calls>>

\* req.body.messages is absent
NoBodyList == [type |-> "undefined", items |-> <<>>]
\* `op` is the handler the router passes the request to; `message`, `topic`
\* and `messages` are the fields of req.body
NoRequest ==
    [op |-> "", sessionId |-> "", user |-> NoUser,
     message |-> JsUndefinedMessage, topic |-> JsUndefinedMessage,
     messages |-> NoBodyList]
NotLoaded == [doc |-> NoSession, pushed |-> <<>>]

Init ==
    /\ store = [sid \in SessionIds |->
                  IF sid = "s1" THEN ChatSessionDoc(sid, "u1", <<>>)
                  ELSE NoSession]
    /\ pc = [r \in Reqs |-> "idle"]
    /\ req = [r \in Reqs |-> NoRequest]
    /\ session = [r \in Reqs |-> NotLoaded]
    /\ analysis = [r \in Reqs |-> JsUndefined]
    /\ response = [r \in Reqs |-> <<>>]
    /\ res = [r \in Reqs |-> NoResponse]
    /\ calls = [r \in Reqs |-> <<>>]

\* the handler sends `json` and returns
Respond(r, json) ==
    /\ res' = [res EXCEPT ![r] = json]
    /\ pc' = [pc EXCEPT ![r] = "done"]

\* a call is issued and awaited
Issue(log, name) == Append(log, [name |-> name, outcome |-> Pending])
\* the awaited call settles
Settle(log, outcome) == [log EXCEPT ![Len(log)].outcome = outcome]

\* InvalidMessage testing the length of the untrimmed message
InvalidMessageUntrimmed(message) ==
    \/ Falsy(message)
    \/ message.type # "string"
    \/ Len(message.str) = 0

\* the validation of req.body.message
InvalidMessage(message) ==
    \/ Falsy(message)
    \/ message.type # "string"
    \/ Len(Trim(message.str)) = 0

\* session.messages.push(m)
Push(s, m) ==
    [doc |-> [s.doc EXCEPT !.messages = Append(@, m)],
     pushed |-> Append(s.pushed, m)]

\* SaveSucceeds also when the update finds no stored document
SaveSucceedsWithoutDocument(s, dbOk) ==
    /\ ValidDoc(s.doc)
    /\ dbOk

\* session.save() of a document whose only change is pushed messages: the
\* document is validated, then the pushed messages are appended to the
\* stored array in one atomic update, which finds no document when the
\* session has been deleted meanwhile.
SaveSucceeds(s, dbOk) ==
    /\ ValidDoc(s.doc)
    /\ dbOk
    /\ store[s.doc.sessionId].exists

\* Saved writing the whole in-memory array over the stored one
SavedWholeDocument(s) ==
    [store EXCEPT ![s.doc.sessionId].messages = s.doc.messages]

\* Saved appending the first of the pushed messages only
SavedFirstPushed(s) ==
    [store EXCEPT ![s.doc.sessionId].messages = Append(@, Head(s.pushed))]

\* the atomic append of the pushed messages
Saved(s) ==
    [store EXCEPT ![s.doc.sessionId].messages = @ \o s.pushed]

(***************************************************************************)
(* sendMessage                                                             *)
(***************************************************************************)
\* SendMessageValidate testing req.user before the message
SendMessageValidateCallerFirst(r) ==
    /\ pc[r] = "idle"
    /\ \E sessionId \in SessionIds, user \in Users \cup {NoUser},
          message \in BodyMessages :
          /\ req' = [req EXCEPT ![r] =
                        [NoRequest EXCEPT !.op = "sendMessage",
                                          !.sessionId = sessionId,
                                          !.user = user, !.message = message]]
          /\ IF user = NoUser
             THEN Respond(r, StatusJson(401, "Unauthorized"))
             ELSE IF InvalidMessage(message)
             THEN Respond(r, StatusJson(400, "Message cannot be empty"))
             ELSE /\ pc' = [pc EXCEPT ![r] = "findOne"]
                  /\ UNCHANGED res
    /\ UNCHANGED <<store, session, analysis, response, calls>>

\* from the entry of the handler to `await ChatSession.findOne`
SendMessageValidate(r) ==
    /\ pc[r] = "idle"
    /\ \E sessionId \in SessionIds, user \in Users \cup {NoUser},
          message \in BodyMessages :
          /\ req' = [req EXCEPT ![r] =
                        [NoRequest EXCEPT !.op = "sendMessage",
                                          !.sessionId = sessionId,
                                          !.user = user, !.message = message]]
          /\ IF InvalidMessage(message)
             THEN Respond(r, StatusJson(400, "Message cannot be empty"))
             ELSE IF user = NoUser
             THEN Respond(r, StatusJson(401, "Unauthorized"))
             ELSE /\ pc' = [pc EXCEPT ![r] = "findOne"]
                  /\ UNCHANGED res
    /\ UNCHANGED <<store, session, analysis, response, calls>>

\* findOne has answered: to `await inngest.send`
SendMessageLoad(r) ==
    /\ pc[r] = "findOne"
    /\ LET found == store[req[r].sessionId]
           message == req[r].message.str
       IN  IF ~found.exists
           THEN /\ Respond(r, StatusJson(404, "Session not found"))
                /\ UNCHANGED <<session, calls>>
           ELSE IF found.userId # req[r].user
           THEN /\ Respond(r, StatusJson(403, "Unauthorized"))
                /\ UNCHANGED <<session, calls>>
           ELSE /\ session' = [session EXCEPT ![r] =
                      Push([doc |-> found, pushed |-> <<>>],
                           ChatMessage("user", Trim(message), FALSE, JsUndefined))]
                /\ calls' = [calls EXCEPT ![r] = Issue(@, "inngest.send")]
                /\ pc' = [pc EXCEPT ![r] = "inngest"]
                /\ UNCHANGED res
    /\ UNCHANGED <<store, req, analysis, response>>

\* SendMessagePublished without the inner try/catch: a failed publish reaches
\* the catch of the handler
SendMessagePublishedUncaught(r) ==
    /\ pc[r] = "inngest"
    /\ \/ /\ calls' = [calls EXCEPT ![r] =
                         Issue(Settle(@, Resolved(<<>>)), "generateContent(analysisPrompt)")]
          /\ pc' = [pc EXCEPT ![r] = "analysis"]
          /\ UNCHANGED res
       \/ /\ calls' = [calls EXCEPT ![r] = Settle(@, Rejected)]
          /\ Respond(r, ErrorJson("InngestError"))
    /\ UNCHANGED <<store, req, session, analysis, response>>

\* inngest.send has settled: to `await model.generateContent(analysisPrompt)`
SendMessagePublished(r) ==
    /\ pc[r] = "inngest"
    /\ \E outcome \in {Resolved(<<>>), Rejected} :
          calls' = [calls EXCEPT ![r] =
                      Issue(Settle(@, outcome), "generateContent(analysisPrompt)")]
    /\ pc' = [pc EXCEPT ![r] = "analysis"]
    /\ UNCHANGED <<store, req, session, analysis, response, res>>

\* the analysis try block after the await, and its catch
Analyse(outcome) ==
    IF outcome.state = "rejected" THEN FallbackAnalysis
    ELSE LET cleanAnalysisText == CleanAnalysisText(Trim(outcome.text))
         IN  IF JsonParses(cleanAnalysisText)
             THEN JsonParse(cleanAnalysisText)
             ELSE FallbackAnalysis

\* SendMessageAnalysed calling the oracle a second time after a failure
SendMessageAnalysedRetry(r) ==
    /\ pc[r] = "analysis"
    /\ \E outcome \in {Resolved(t) : t \in AnalysisTexts} \cup {Rejected} :
          IF /\ outcome = Rejected
             /\ \A i \in DOMAIN calls[r] :
                   calls[r][i].name = "generateContent(analysisPrompt)"
                       => calls[r][i].outcome # Rejected
          THEN /\ calls' = [calls EXCEPT ![r] =
                     Issue(Settle(@, outcome), "generateContent(analysisPrompt)")]
               /\ UNCHANGED <<analysis, pc>>
          ELSE /\ analysis' = [analysis EXCEPT ![r] = Analyse(outcome)]
               /\ calls' = [calls EXCEPT ![r] =
                     Issue(Settle(@, outcome), "generateContent(responsePrompt)")]
               /\ pc' = [pc EXCEPT ![r] = "response"]
    /\ UNCHANGED <<store, req, session, response, res>>

\* the analysis call has settled: to `await model.generateContent(responsePrompt)`
SendMessageAnalysed(r) ==
    /\ pc[r] = "analysis"
    /\ \E outcome \in {Resolved(t) : t \in AnalysisTexts} \cup {Rejected} :
          /\ analysis' = [analysis EXCEPT ![r] = Analyse(outcome)]
          /\ calls' = [calls EXCEPT ![r] =
                         Issue(Settle(@, outcome), "generateContent(responsePrompt)")]
    /\ pc' = [pc EXCEPT ![r] = "response"]
    /\ UNCHANGED <<store, req, session, response, res>>

\* Reply whose catch leaves the response empty
ReplyWithoutFallback(outcome) == Trim(outcome.text)

\* the response try block after the await, and its catch
Reply(outcome) ==
    IF outcome.state = "rejected" THEN FallbackResponse
    ELSE Trim(outcome.text)

\* the response call has settled: to `await session.save()`
SendMessageReplied(r) ==
    /\ pc[r] = "response"
    /\ \E outcome \in {Resolved(t) : t \in ResponseTexts} \cup {Rejected} :
          /\ response' = [response EXCEPT ![r] = Reply(outcome)]
          /\ IF PropertyReadThrows(analysis[r])
             THEN /\ calls' = [calls EXCEPT ![r] = Settle(@, outcome)]
                  /\ Respond(r, ErrorJson("TypeError"))
                  /\ UNCHANGED session
             ELSE /\ session' = [session EXCEPT ![r] =
                        Push(@, ChatMessage("assistant", Reply(outcome), TRUE,
                                            analysis[r]))]
                  /\ calls' = [calls EXCEPT ![r] =
                                 Issue(Settle(@, outcome), "session.save")]
                  /\ pc' = [pc EXCEPT ![r] = "save"]
                  /\ UNCHANGED res
    /\ UNCHANGED <<store, req, analysis>>

\* save has settled: the response, or the catch
SendMessageSaved(r) ==
    /\ pc[r] = "save"
    /\ \E dbOk \in BOOLEAN :
          IF SaveSucceeds(session[r], dbOk)
          THEN /\ store' = Saved(session[r])
               /\ calls' = [calls EXCEPT ![r] = Settle(@, Resolved(<<>>))]
               /\ Respond(r, ReplyJson(response[r], analysis[r]))
          ELSE /\ calls' = [calls EXCEPT ![r] = Settle(@, Rejected)]
               /\ Respond(r, ErrorJson(IF ValidDoc(session[r].doc)
                                       THEN "MongoError" ELSE "ValidationError"))
               /\ UNCHANGED store
    /\ UNCHANGED <<req, session, analysis, response>>

Next ==
    \E r \in Reqs :
        \/ SendMessageValidate(r)
        \/ SendMessageLoad(r)
        \/ SendMessagePublished(r)
        \/ SendMessageAnalysed(r)
        \/ SendMessageReplied(r)
        \/ SendMessageSaved(r)

Spec == Init /\ [][Next]_vars

\* one request alone: no other request is in flight while it is served
NextSingle ==
    \/ SendMessageValidate(1)
    \/ SendMessageLoad(1)
    \/ SendMessagePublished(1)
    \/ SendMessageAnalysed(1)
    \/ SendMessageReplied(1)
    \/ SendMessageSaved(1)

SpecSingle == Init /\ [][NextSingle]_vars

(***************************************************************************)
(* deleteChatSession, updateSessionTopic, getChatSession, getChatHistory   *)
(***************************************************************************)
\* the limit of topic.trim().substring(0, 100) and of the schema's maxlength
TopicMaxLength == 100
\* how far beyond TopicMaxLength the topics of the requests reach
MaxTopicExcess == 1

RECURSIVE Repeat(_, _)
Repeat(c, n) == IF n = 0 THEN <<>> ELSE <<c>> \o Repeat(c, n - 1)

\* String.prototype.substring(0, n)
Substring(s, n) == SubSeq(s, 1, IF Len(s) < n THEN Len(s) ELSE n)

\* req.body.topic: the texts are made of single characters
BodyTopics ==
    {JsUndefinedMessage, JsNumberMessage(7), JsStringMessage(<<>>),
     JsStringMessage(<<SP>>), JsStringMessage(<<"b">>),
     JsStringMessage(<<SP, "b", SP, "a", NL>>)}
        \cup {JsStringMessage(Repeat("a", n)) :
                 n \in TopicMaxLength..(TopicMaxLength + MaxTopicExcess)}
        \cup {JsStringMessage(<<SP>> \o Repeat("a", n) \o <<"b">>) :
                 n \in (TopicMaxLength - 1)..(TopicMaxLength + MaxTopicExcess - 1)}

\* res.status(status).json({ error })
ErrorStatusJson(status, error) ==
    [NoResponse EXCEPT !.status = status, !.keys = {"error"}, !.error = error]

\* the catch of deleteChatSession and of updateSessionTopic
FailureJson(error, details) ==
    [NoResponse EXCEPT !.status = 500, !.keys = {"error", "details"},
                       !.error = error, !.details = details]

\* from the entry of deleteChatSession to `await ChatSession.findOne`
DeleteChatSessionBegin(r) ==
    /\ pc[r] = "idle"
    /\ \E sessionId \in SessionIds, user \in Users \cup {NoUser} :
          /\ req' = [req EXCEPT ![r] =
                        [NoRequest EXCEPT !.op = "deleteChatSession",
                                          !.sessionId = sessionId,
                                          !.user = user]]
          /\ IF user = NoUser
             THEN Respond(r, StatusJson(401, "Unauthorized"))
             ELSE /\ pc' = [pc EXCEPT ![r] = "delete.findOne"]
                  /\ UNCHANGED res
    /\ UNCHANGED <<store, session, analysis, response, calls>>

\* DeleteChatSessionLoad without the comparison of the owner with the caller
DeleteChatSessionLoadAnyCaller(r) ==
    /\ pc[r] = "delete.findOne"
    /\ LET found == store[req[r].sessionId]
       IN  IF ~found.exists
           THEN /\ Respond(r, ErrorStatusJson(404, "Session not found"))
                /\ UNCHANGED <<session, calls>>
           ELSE /\ session' = [session EXCEPT ![r] =
                                  [doc |-> found, pushed |-> <<>>]]
                /\ calls' = [calls EXCEPT ![r] = Issue(@, "ChatSession.deleteOne")]
                /\ pc' = [pc EXCEPT ![r] = "delete.deleteOne"]
                /\ UNCHANGED res
    /\ UNCHANGED <<store, req, analysis, response>>

\* findOne has answered: to `await ChatSession.deleteOne`
DeleteChatSessionLoad(r) ==
    /\ pc[r] = "delete.findOne"
    /\ LET found == store[req[r].sessionId]
       IN  IF ~found.exists
           THEN /\ Respond(r, ErrorStatusJson(404, "Session not found"))
                /\ UNCHANGED <<session, calls>>
           ELSE IF found.userId # req[r].user
           THEN /\ Respond(r, ErrorStatusJson(403,
                       "Unauthorized - you can only delete your own sessions"))
                /\ UNCHANGED <<session, calls>>
           ELSE /\ session' = [session EXCEPT ![r] =
                                  [doc |-> found, pushed |-> <<>>]]
                /\ calls' = [calls EXCEPT ![r] = Issue(@, "ChatSession.deleteOne")]
                /\ pc' = [pc EXCEPT ![r] = "delete.deleteOne"]
                /\ UNCHANGED res
    /\ UNCHANGED <<store, req, analysis, response>>

\* DeleteChatSessionDeleted answering success and leaving the session stored
DeleteChatSessionDeletedKept(r) ==
    /\ pc[r] = "delete.deleteOne"
    /\ calls' = [calls EXCEPT ![r] = Settle(@, Resolved(<<>>))]
    /\ Respond(r, [NoResponse EXCEPT
                     !.status = 200,
                     !.keys = {"success", "message", "sessionId"},
                     !.message = <<"Session deleted successfully">>])
    /\ UNCHANGED <<store, req, session, analysis, response>>

\* deleteOne has settled: the response, or the catch.  Deleting a session
\* that is no longer there succeeds as well.
DeleteChatSessionDeleted(r) ==
    /\ pc[r] = "delete.deleteOne"
    /\ \E dbOk \in BOOLEAN :
          IF dbOk
          THEN /\ store' = [store EXCEPT ![req[r].sessionId] = NoSession]
               /\ calls' = [calls EXCEPT ![r] = Settle(@, Resolved(<<>>))]
               /\ Respond(r, [NoResponse EXCEPT
                                !.status = 200,
                                !.keys = {"success", "message", "sessionId"},
                                !.message = <<"Session deleted successfully">>])
          ELSE /\ calls' = [calls EXCEPT ![r] = Settle(@, Rejected)]
               /\ Respond(r, FailureJson("Failed to delete session", "MongoError"))
               /\ UNCHANGED store
    /\ UNCHANGED <<req, session, analysis, response>>

\* the validation of req.body.topic
InvalidTopic(topic) ==
    \/ Falsy(topic)
    \/ topic.type # "string"
    \/ Len(Trim(topic.str)) = 0

\* from the entry of updateSessionTopic to `await ChatSession.findOne`
UpdateSessionTopicBegin(r) ==
    /\ pc[r] = "idle"
    /\ \E sessionId \in SessionIds, user \in Users \cup {NoUser},
          topic \in BodyTopics :
          /\ req' = [req EXCEPT ![r] =
                        [NoRequest EXCEPT !.op = "updateSessionTopic",
                                          !.sessionId = sessionId,
                                          !.user = user, !.topic = topic]]
          /\ IF InvalidTopic(topic)
             THEN Respond(r, ErrorStatusJson(400,
                      "Topic is required and must be a non-empty string"))
             ELSE IF user = NoUser
             THEN Respond(r, StatusJson(401, "Unauthorized"))
             ELSE /\ pc' = [pc EXCEPT ![r] = "topic.findOne"]
                  /\ UNCHANGED res
    /\ UNCHANGED <<store, session, analysis, response, calls>>

\* NewTopic cutting to 100 characters before trimming
NewTopicCutFirst(topic) == Trim(Substring(topic.str, TopicMaxLength))

\* session.topic = topic.trim().substring(0, 100)
NewTopic(topic) == Substring(Trim(topic.str), TopicMaxLength)

\* findOne has answered: to `await session.save()`
UpdateSessionTopicLoad(r) ==
    /\ pc[r] = "topic.findOne"
    /\ LET found == store[req[r].sessionId]
       IN  IF ~found.exists
           THEN /\ Respond(r, ErrorStatusJson(404, "Session not found"))
                /\ UNCHANGED <<session, calls>>
           ELSE IF found.userId # req[r].user
           THEN /\ Respond(r, ErrorStatusJson(403, "Unauthorized"))
                /\ UNCHANGED <<session, calls>>
           ELSE /\ session' = [session EXCEPT ![r] =
                      [doc |-> [found EXCEPT !.topic = NewTopic(req[r].topic)],
                       pushed |-> <<>>]]
                /\ calls' = [calls EXCEPT ![r] = Issue(@, "session.save")]
                /\ pc' = [pc EXCEPT ![r] = "topic.save"]
                /\ UNCHANGED res
    /\ UNCHANGED <<store, req, analysis, response>>

\* session.save() of a document whose only change is its topic: the topic
\* is validated against maxlength, then set in the stored document by one
\* update, which finds no document when the session has been deleted
\* meanwhile.
TopicSaveSucceeds(s, dbOk) ==
    /\ Len(s.doc.topic) <= TopicMaxLength
    /\ SaveSucceeds(s, dbOk)

\* TopicSaved writing the in-memory message list along with the topic
TopicSavedWholeDocument(s) ==
    [store EXCEPT ![s.doc.sessionId].topic = s.doc.topic,
                  ![s.doc.sessionId].messages = s.doc.messages]

\* TopicSaved writing the status along with the topic
TopicSavedWithStatus(s) ==
    [store EXCEPT ![s.doc.sessionId].topic = s.doc.topic,
                  ![s.doc.sessionId].status = "archived"]

\* the update that sets the topic of the stored document
TopicSaved(s) ==
    [store EXCEPT ![s.doc.sessionId].topic = s.doc.topic]

\* save has settled: the response, or the catch
UpdateSessionTopicSaved(r) ==
    /\ pc[r] = "topic.save"
    /\ \E dbOk \in BOOLEAN :
          IF TopicSaveSucceeds(session[r], dbOk)
          THEN /\ store' = TopicSaved(session[r])
               /\ calls' = [calls EXCEPT ![r] = Settle(@, Resolved(<<>>))]
               /\ Respond(r, [NoResponse EXCEPT
                                !.status = 200,
                                !.keys = {"success", "topic", "message"},
                                !.topic = session[r].doc.topic,
                                !.message = <<"Topic updated successfully">>])
          ELSE /\ calls' = [calls EXCEPT ![r] = Settle(@, Rejected)]
               /\ Respond(r, FailureJson("Failed to update session topic",
                                         "MongoError"))
               /\ UNCHANGED store
    /\ UNCHANGED <<req, session, analysis, response>>

\* from the entry of getChatSession to `await ChatSession.findOne`: the
\* caller is one that router.use(auth) let pass; the handler reads neither
\* req.user nor the owner of the session
GetChatSessionBegin(r) ==
    /\ pc[r] = "idle"
    /\ \E sessionId \in SessionIds, user \in Users :
          req' = [req EXCEPT ![r] =
                     [NoRequest EXCEPT !.op = "getChatSession",
                                       !.sessionId = sessionId, !.user = user]]
    /\ pc' = [pc EXCEPT ![r] = "get.findOne"]
    /\ UNCHANGED <<store, session, analysis, response, res, calls>>

\* findOne has answered: res.json(chatSession)
GetChatSessionLoad(r) ==
    /\ pc[r] = "get.findOne"
    /\ LET found == store[req[r].sessionId]
       IN  IF ~found.exists
           THEN Respond(r, ErrorStatusJson(404, "Chat session not found"))
           ELSE Respond(r, [NoResponse EXCEPT
                              !.status = 200,
                              !.keys = {"sessionId", "userId", "messages",
                                        "topic", "status"},
                              !.session = found, !.messages = found.messages,
                              !.topic = found.topic])
    /\ UNCHANGED <<store, req, session, analysis, response, calls>>

\* from the entry of getChatHistory to `await ChatSession.findOne`
GetChatHistoryBegin(r) ==
    /\ pc[r] = "idle"
    /\ \E sessionId \in SessionIds, user \in Users \cup {NoUser} :
          /\ req' = [req EXCEPT ![r] =
                        [NoRequest EXCEPT !.op = "getChatHistory",
                                          !.sessionId = sessionId,
                                          !.user = user]]
          /\ IF user = NoUser
             THEN Respond(r, StatusJson(401, "Unauthorized"))
             ELSE /\ pc' = [pc EXCEPT ![r] = "history.findOne"]
                  /\ UNCHANGED res
    /\ UNCHANGED <<store, session, analysis, response, calls>>

\* findOne has answered: res.json(session.messages)
GetChatHistoryLoad(r) ==
    /\ pc[r] = "history.findOne"
    /\ LET found == store[req[r].sessionId]
       IN  IF ~found.exists
           THEN Respond(r, StatusJson(404, "Session not found"))
           ELSE IF found.userId # req[r].user
           THEN Respond(r, StatusJson(403, "Unauthorized"))
           ELSE Respond(r, [NoResponse EXCEPT !.status = 200,
                                              !.keys = {"messages"},
                                              !.messages = found.messages])
    /\ UNCHANGED <<store, req, session, analysis, response, calls>>

\* the operations on sessions, for NumReq concurrent requests
NextSessions ==
    \E r \in Reqs :
        \/ SendMessageValidate(r)
        \/ SendMessageLoad(r)
        \/ SendMessagePublished(r)
        \/ SendMessageAnalysed(r)
        \/ SendMessageReplied(r)
        \/ SendMessageSaved(r)
        \/ DeleteChatSessionBegin(r)
        \/ DeleteChatSessionLoad(r)
        \/ DeleteChatSessionDeleted(r)
        \/ UpdateSessionTopicBegin(r)
        \/ UpdateSessionTopicLoad(r)
        \/ UpdateSessionTopicSaved(r)
        \/ GetChatSessionBegin(r)
        \/ GetChatSessionLoad(r)
        \/ GetChatHistoryBegin(r)
        \/ GetChatHistoryLoad(r)

SpecSessions == Init /\ [][NextSessions]_vars

\* one request alone, of any of the operations on sessions
NextSessionsSingle ==
    \/ SendMessageValidate(1)
    \/ SendMessageLoad(1)
    \/ SendMessagePublished(1)
    \/ SendMessageAnalysed(1)
    \/ SendMessageReplied(1)
    \/ SendMessageSaved(1)
    \/ DeleteChatSessionBegin(1)
    \/ DeleteChatSessionLoad(1)
    \/ DeleteChatSessionDeleted(1)
    \/ UpdateSessionTopicBegin(1)
    \/ UpdateSessionTopicLoad(1)
    \/ UpdateSessionTopicSaved(1)
    \/ GetChatSessionBegin(1)
    \/ GetChatSessionLoad(1)
    \/ GetChatHistoryBegin(1)
    \/ GetChatHistoryLoad(1)

SpecSessionsSingle == Init /\ [][NextSessionsSingle]_vars

\* a deletion while writes are in flight, and a read: the requests are
\* NumReq - 1 writers (sendMessage or updateSessionTopic), one
\* deleteChatSession and one reader (getChatSession or getChatHistory),
\* their steps interleaved in every order
InFlightReqs == 1..(NumReq + 1)
Writers == 1..(NumReq - 1)
Deleter == NumReq
Reader == NumReq + 1

InitInFlight ==
    /\ store = [sid \in SessionIds |->
                  IF sid = "s1" THEN ChatSessionDoc(sid, "u1", <<>>)
                  ELSE NoSession]
    /\ pc = [r \in InFlightReqs |-> "idle"]
    /\ req = [r \in InFlightReqs |-> NoRequest]
    /\ session = [r \in InFlightReqs |-> NotLoaded]
    /\ analysis = [r \in InFlightReqs |-> JsUndefined]
    /\ response = [r \in InFlightReqs |-> <<>>]
    /\ res = [r \in InFlightReqs |-> NoResponse]
    /\ calls = [r \in InFlightReqs |-> <<>>]

NextInFlight ==
    \/ \E r \in Writers :
          \/ SendMessageValidate(r)
          \/ SendMessageLoad(r)
          \/ SendMessagePublished(r)
          \/ SendMessageAnalysed(r)
          \/ SendMessageReplied(r)
          \/ SendMessageSaved(r)
          \/ UpdateSessionTopicBegin(r)
          \/ UpdateSessionTopicLoad(r)
          \/ UpdateSessionTopicSaved(r)
    \/ DeleteChatSessionBegin(Deleter)
    \/ DeleteChatSessionLoad(Deleter)
    \/ DeleteChatSessionDeleted(Deleter)
    \/ GetChatSessionBegin(Reader)
    \/ GetChatSessionLoad(Reader)
    \/ GetChatHistoryBegin(Reader)
    \/ GetChatHistoryLoad(Reader)

SpecInFlight == InitInFlight /\ [][NextInFlight]_vars

(***************************************************************************)
(* generateTopic and generateFallbackTopic.  A text is the sequence of its *)
(* characters; a label of the program is one token, its emoji written as   *)
(* a name in brackets.                                                     *)
(***************************************************************************)
\* the limit of `topic.length > 50`
GeneratedTopicMaxLength == 50
\* the longest message list of a request
MaxMessages == 2

UpperCaseLetters ==
    <<"A", "B", "C", "D", "E", "F", "G", "H", "I", "J", "K", "L", "M",
      "N", "O", "P", "Q", "R", "S", "T", "U", "V", "W", "X", "Y", "Z">>
LowerCaseLetters ==
    <<"a", "b", "c", "d", "e", "f", "g", "h", "i", "j", "k", "l", "m",
      "n", "o", "p", "q", "r", "s", "t", "u", "v", "w", "x", "y", "z">>

\* String.prototype.toLowerCase
ToLowerCase(s) ==
    [i \in DOMAIN s |->
        IF \E n \in DOMAIN UpperCaseLetters : UpperCaseLetters[n] = s[i]
        THEN LowerCaseLetters[
                 CHOOSE n \in DOMAIN UpperCaseLetters : UpperCaseLetters[n] = s[i]]
        ELSE s[i]]

\* String.prototype.toUpperCase
ToUpperCase(s) ==
    [i \in DOMAIN s |->
        IF \E n \in DOMAIN LowerCaseLetters : LowerCaseLetters[n] = s[i]
        THEN UpperCaseLetters[
                 CHOOSE n \in DOMAIN LowerCaseLetters : LowerCaseLetters[n] = s[i]]
        ELSE s[i]]

\* String.prototype.includes
Includes(s, keyword) ==
    \E i \in 0..(Len(s) - Len(keyword)) :
        SubSeq(s, i + 1, i + Len(keyword)) = keyword

\* Object.entries(topicMap), in the order of the literal
topicMap ==
    <<
      [keyword |-> <<"a", "n", "x", "i", "e", "t", "y">>,
       topic |-> "[thought] Anxiety Support"],
      [keyword |-> <<"a", "n", "x", "i", "o", "u", "s">>,
       topic |-> "[thought] Anxiety Support"],
      [keyword |-> <<"w", "o", "r", "r", "i", "e", "d">>,
       topic |-> "[thought] Anxiety Support"],
      [keyword |-> <<"s", "t", "r", "e", "s", "s">>,
       topic |-> "[anxious face] Stress Management"],
      [keyword |-> <<"s", "t", "r", "e", "s", "s", "e", "d">>,
       topic |-> "[anxious face] Stress Management"],
      [keyword |-> <<"o", "v", "e", "r", "w", "h", "e", "l", "m", "e", "d">>,
       topic |-> "[wave] Feeling Overwhelmed"],
      [keyword |-> <<"s", "l", "e", "e", "p">>,
       topic |-> "[sleeping face] Sleep Issues"],
      [keyword |-> <<"i", "n", "s", "o", "m", "n", "i", "a">>,
       topic |-> "[sleeping face] Sleep Problems"],
      [keyword |-> <<"t", "i", "r", "e", "d">>,
       topic |-> "[sleeping face] Sleep & Energy"],
      [keyword |-> <<"d", "e", "p", "r", "e", "s", "s", "i", "o", "n">>,
       topic |-> "[rain cloud] Depression Support"],
      [keyword |-> <<"d", "e", "p", "r", "e", "s", "s", "e", "d">>,
       topic |-> "[rain cloud] Depression Support"],
      [keyword |-> <<"s", "a", "d">>,
       topic |-> "[crying face] Emotional Support"],
      [keyword |-> <<"w", "o", "r", "k">>,
       topic |-> "[briefcase] Work Issues"],
      [keyword |-> <<"j", "o", "b">>,
       topic |-> "[briefcase] Work Stress"],
      [keyword |-> <<"r", "e", "l", "a", "t", "i", "o", "n", "s", "h", "i", "p">>,
       topic |-> "[two hearts] Relationship Help"],
      [keyword |-> <<"p", "a", "r", "t", "n", "e", "r">>,
       topic |-> "[two hearts] Relationship Issues"],
      [keyword |-> <<"f", "a", "m", "i", "l", "y">>,
       topic |-> "[family] Family Matters"],
      [keyword |-> <<"p", "a", "n", "i", "c">>,
       topic |-> "[high voltage] Panic Support"],
      [keyword |-> <<"a", "n", "g", "e", "r">>,
       topic |-> "[pouting face] Anger Management"],
      [keyword |-> <<"a", "n", "g", "r", "y">>,
       topic |-> "[pouting face] Anger Management"],
      [keyword |-> <<"l", "o", "n", "e", "l", "y">>,
       topic |-> "[hugging face] Loneliness Support"],
      [keyword |-> <<"c", "o", "n", "f", "i", "d", "e", "n", "c", "e">>,
       topic |-> "[flexed biceps] Building Confidence"],
      [keyword |-> <<"s", "e", "l", "f", "-", "e", "s", "t", "e", "e", "m">>,
       topic |-> "[flexed biceps] Self-Worth"],
      [keyword |-> <<"g", "r", "i", "e", "f">>,
       topic |-> "[blue heart] Grief Support"],
      [keyword |-> <<"l", "o", "s", "s">>,
       topic |-> "[blue heart] Coping with Loss"]>>

NewChatTopic == <<"[speech balloon] New Chat">>
TherapySessionTopic == <<"[speech balloon] Therapy Session">>

\* the outcome of a call: the value returned, or an exception
Returned(topic) == [threw |-> FALSE, topic |-> topic]
Thrown == [threw |-> TRUE, topic |-> <<>>]

\* FirstKeyword returning the last entry whose keyword the text includes
LastKeyword(text, i) ==
    LET found == {n \in i..Len(topicMap) : Includes(text, topicMap[n].keyword)}
    IN  IF found = {} THEN 0
        ELSE CHOOSE n \in found : \A m \in found : m <= n

\* the for loop over the entries from entry i on: the first entry whose
\* keyword the text includes, 0 when there is none
RECURSIVE FirstKeyword(_, _)
FirstKeyword(text, i) ==
    IF i > Len(topicMap) THEN 0
    ELSE IF Includes(text, topicMap[i].keyword) THEN i
    ELSE FirstKeyword(text, i + 1)

\* s.split(" ").slice(0, n).join(" "): s up to its n-th space
RECURSIVE FirstWords(_, _)
FirstWords(s, n) ==
    IF s = <<>> THEN <<>>
    ELSE IF Head(s) = SP
         THEN IF n = 1 THEN <<>> ELSE <<SP>> \o FirstWords(Tail(s), n - 1)
         ELSE <<Head(s)>> \o FirstWords(Tail(s), n)

\* words.charAt(0).toUpperCase() + words.slice(1)
Capitalized(words) ==
    IF words = <<>> THEN <<>>
    ELSE ToUpperCase(<<Head(words)>>) \o Tail(words)

\* msg.content of the messages of req.body.messages
MessageContents ==
    {<<"I", SP, "c", "a", "n", "'", "t", SP, "s", "l", "e", "e", "p", SP,
       "a", "t", SP, "n", "i", "g", "h", "t">>,
     <<"S", "o", SP, "A", "N", "X", "I", "O", "U", "S">>,
     <<"m", "y", SP, "j", "o", "b", SP, "m", "a", "k", "e", "s", SP, "m",
       "e", SP, "a", "n", "x", "i", "o", "u", "s">>,
     <<"A", "n", "x", "i", "o", "u", "s", SP, "a", "b", "o", "u", "t", SP,
       "m", "y", SP, "j", "o", "b">>,
     <<"T", "i", "r", "e", "d", SP, "a", "n", "d", SP, "s", "t", "r", "e",
       "s", "s", "e", "d">>,
     <<"H", "e", "l", "l", "o", SP, "t", "h", "e", "r", "e", SP, "m", "y",
       SP, "f", "r", "i", "e", "n", "d">>,
     <<>>}

\* a message of req.body.messages; content may be absent
TopicMessage(role, content) == [role |-> role, content |-> content]
MessageItems ==
    {TopicMessage(role, JsStringMessage(text)) :
        role \in {"user", "assistant"}, text \in MessageContents}
        \cup {TopicMessage("user", JsUndefinedMessage)}

\* req.body.messages: absent, a text, or an array of messages
BodyMessageLists ==
    {NoBodyList, [type |-> "string", items |-> <<>>]}
        \cup {[type |-> "array", items |-> items] :
                 items \in SeqsUpTo(MessageItems, MaxMessages)}

\* the fallback topic, or the TypeError of reading toLowerCase from a
\* content that is absent
generateFallbackTopic(messages) ==
    IF messages.type = "undefined" \/ Len(messages.items) = 0
    THEN Returned(NewChatTopic)
    ELSE LET userMessages ==
                 SelectSeq(messages.items, LAMBDA msg : msg.role = "user")
         IN  IF Len(userMessages) = 0 THEN Returned(NewChatTopic)
             ELSE IF userMessages[1].content.type # "string" THEN Thrown
             ELSE LET firstMessage ==
                          ToLowerCase(userMessages[1].content.str)
                      entry == FirstKeyword(firstMessage, 1)
                  IN  IF entry # 0
                      THEN Returned(<<topicMap[entry].topic>>)
                      ELSE Returned(<<"[speech balloon] ">>
                               \o Capitalized(FirstWords(firstMessage, 3)))

\* the validation of req.body.messages
InvalidMessages(messages) ==
    \/ messages.type = "undefined"
    \/ messages.type # "array"
    \/ Len(messages.items) = 0

\* building topicPrompt throws: msg.content.substring of an absent content
PromptThrows(messages) ==
    \E i \in DOMAIN messages.items :
        messages.items[i].content.type # "string"

\* topic.replace(/['"]/g, "")
RemoveQuotes(s) == SelectSeq(s, LAMBDA c : c \notin {"'", "\""})
\* result.response.text().trim(), then the cleaning of the quotes
CleanTopic(text) == Trim(RemoveQuotes(Trim(text)))

\* the texts the oracle answers the topic prompt with
TopicTexts ==
    {<<"\"", "S", "l", "e", "e", "p", "\"", NL>>, <<SP, "\"", "'", NL>>}
        \cup {Repeat("a", n) :
                 n \in GeneratedTopicMaxLength
                         ..(GeneratedTopicMaxLength + MaxTopicExcess)}
TopicCall == "generateContent(topicPrompt)"

\* res.json({ topic })
TopicJson(topic) ==
    [NoResponse EXCEPT !.status = 200, !.keys = {"topic"}, !.topic = topic]

\* the catch of generateTopic: the fallback topic, or the last resort
GenerateTopicCatch(r, messages) ==
    LET fallbackTopic == generateFallbackTopic(messages)
    IN  IF fallbackTopic.threw
        THEN Respond(r, [NoResponse EXCEPT
                           !.status = 500, !.keys = {"error", "topic"},
                           !.error = "Failed to generate topic",
                           !.topic = TherapySessionTopic])
        ELSE Respond(r, TopicJson(fallbackTopic.topic))

\* from the entry of generateTopic to `await model.generateContent`
GenerateTopicBegin(r) ==
    /\ pc[r] = "idle"
    /\ \E user \in Users \cup {NoUser}, messages \in BodyMessageLists :
          /\ req' = [req EXCEPT ![r] =
                        [NoRequest EXCEPT !.op = "generateTopic",
                                          !.user = user,
                                          !.messages = messages]]
          /\ IF InvalidMessages(messages)
             THEN /\ Respond(r, ErrorStatusJson(400,
                         "Messages array is required and cannot be empty"))
                  /\ UNCHANGED calls
             ELSE IF user = NoUser
             THEN /\ Respond(r, StatusJson(401, "Unauthorized"))
                  /\ UNCHANGED calls
             ELSE IF PromptThrows(messages)
             THEN /\ GenerateTopicCatch(r, messages)
                  /\ UNCHANGED calls
             ELSE /\ calls' = [calls EXCEPT ![r] = Issue(@, TopicCall)]
                  /\ pc' = [pc EXCEPT ![r] = "topic.generateContent"]
                  /\ UNCHANGED res
    /\ UNCHANGED <<store, session, analysis, response>>

\* GenerateTopicAnswered answering a failed call with the error
GenerateTopicAnsweredNoFallback(r) ==
    /\ pc[r] = "topic.generateContent"
    /\ \E outcome \in {Rejected} \cup {Resolved(t) : t \in TopicTexts} :
          /\ calls' = [calls EXCEPT ![r] = Settle(@, outcome)]
          /\ IF outcome = Rejected
             THEN Respond(r, FailureJson("Failed to generate topic", "Error"))
             ELSE Respond(r, TopicJson(CleanTopic(outcome.text)))
    /\ UNCHANGED <<store, req, session, analysis, response>>

\* generateContent has settled: the topic of the oracle, or the fallback
GenerateTopicAnswered(r) ==
    /\ pc[r] = "topic.generateContent"
    /\ \E outcome \in {Rejected} \cup {Resolved(t) : t \in TopicTexts} :
          /\ calls' = [calls EXCEPT ![r] = Settle(@, outcome)]
          /\ IF outcome = Rejected
             THEN GenerateTopicCatch(r, req[r].messages)
             ELSE LET topic == CleanTopic(outcome.text)
                      fallbackTopic == generateFallbackTopic(req[r].messages)
                  IN  IF Len(topic) = 0 \/ Len(topic) > GeneratedTopicMaxLength
                      THEN IF fallbackTopic.threw
                           THEN GenerateTopicCatch(r, req[r].messages)
                           ELSE Respond(r, TopicJson(fallbackTopic.topic))
                      ELSE Respond(r, TopicJson(topic))
    /\ UNCHANGED <<store, req, session, analysis, response>>

\* one generateTopic request
NextTopic ==
    \/ GenerateTopicBegin(1)
    \/ GenerateTopicAnswered(1)

SpecTopic == Init /\ [][NextTopic]_vars

(***************************************************************************)
(* Vocabulary of the properties                                            *)
(***************************************************************************)
AnalysisCall == "generateContent(analysisPrompt)"
ResponseCall == "generateContent(responsePrompt)"

\* request r has issued the call `name`
Called(r, name) == \E i \in DOMAIN calls[r] : calls[r][i].name = name
\* the call `name` of request r has settled with `outcome`
Settled(r, name, outcome) ==
    \E i \in DOMAIN calls[r] :
        calls[r][i].name = name /\ calls[r][i].outcome = outcome
\* the call `name` of request r threw
Threw(r, name) == Settled(r, name, Rejected)

\* request r passed validation, authentication, lookup and ownership
Admitted(r) == Called(r, "inngest.send")
\* the handler of request r has returned
Done(r) == pc[r] = "done"
\* the database refused the write of request r
DatabaseFailed(r) == Done(r) /\ res[r].error = "MongoError"

\* the user turn of request r's submission
UserTurn(r) == ChatMessage("user", Trim(req[r].message.str), FALSE, JsUndefined)
StoredMessages(r) == store[req[r].sessionId].messages
\* the stored session holds the user turn of request r
UserTurnStored(r) ==
    \E i \in DOMAIN StoredMessages(r) : StoredMessages(r)[i] = UserTurn(r)
\* the stored session holds the user turn of request r with one assistant
\* turn right after it, and request r appended nothing else
TurnsStored(r) ==
    /\ Len(session[r].pushed) = 2
    /\ session[r].pushed[1] = UserTurn(r)
    /\ session[r].pushed[2].role = "assistant"
    /\ \E i \in 1..(Len(StoredMessages(r)) - 1) :
          /\ StoredMessages(r)[i] = session[r].pushed[1]
          /\ StoredMessages(r)[i + 1] = session[r].pushed[2]

(***************************************************************************)
(* C1 .. C5                                                                *)
(***************************************************************************)
\* C1: whenever the analysis call of a sendMessage has been issued, the user
\* turn of that submission is already in the stored session.
C1_UserTurnStoredBeforeOracle ==
    \A r \in Reqs : Called(r, AnalysisCall) => UserTurnStored(r)

\* C2: a sendMessage with a message that is non-empty after trimming, on an
\* existing session by its owner, ends with exactly one user turn holding
\* the trimmed message and one assistant turn after it in the stored
\* session, whatever the oracle and the telemetry did (the database
\* accepting the write).
C2_AppendsUserThenAssistant ==
    \A r \in Reqs :
        Done(r) /\ Admitted(r) /\ ~DatabaseFailed(r) => TurnsStored(r)

\* C3: when the save of the assistant turn fails, the failure is reported
\* and the user turn of the submission is in the stored session.
C3_UserTurnSurvivesFailedSave ==
    \A r \in Reqs :
        Done(r) /\ Threw(r, "session.save") =>
            res[r].status = 500 /\ UserTurnStored(r)

\* C4: when sendMessage fails internally after the user turn was appended,
\* the caller still receives a reply text.
C4_ReplyOnInternalFailure ==
    \A r \in Reqs :
        Done(r) /\ Admitted(r) /\ res[r].status = 500 =>
            "response" \in res[r].keys /\ res[r].response # <<>>

\* C5: whatever the analysis call did, an admitted sendMessage whose write
\* the database accepts answers 200 with an Analysis holding all five
\* fields.
C5_AlwaysWellFormedAnalysis ==
    \A r \in Reqs :
        Done(r) /\ Admitted(r) /\ ~Threw(r, "session.save") =>
            /\ res[r].status = 200
            /\ res[r].analysis.kind = "object"
            /\ res[r].analysis.has = AnalysisFields

(***************************************************************************)
(* C6 .. C10                                                               *)
(***************************************************************************)
\* the answers of the analysis oracle that are no JSON once the fences are
\* stripped
C6_NonJsonTexts ==
    {<<ProseText, NL, FenceJson, NL, JsonObjectText, NL, Fence>>,
     <<ProseText>>,
     <<>>}
C6_FixedAnalysis ==
    [kind |-> "object", has |-> AnalysisFields,
     emotionalState |-> "seeking_support", themes |-> <<"anxiety_management">>,
     riskLevel |-> 1, recommendedApproach |-> "cognitive_behavioral",
     progressIndicators |-> <<"active_engagement">>]
C6_AnalysisUnusable(r) ==
    \/ Threw(r, AnalysisCall)
    \/ \E t \in C6_NonJsonTexts : Settled(r, AnalysisCall, Resolved(t))

\* C6: whenever the analysis call threw or answered text that is no JSON
\* after fence stripping, the Analysis is the fixed fallback, field for
\* field: in the handler, in the assistant message it builds and stores, and
\* in the response.
C6_FallbackAnalysisExact ==
    \A r \in Reqs :
        C6_AnalysisUnusable(r) =>
            /\ analysis[r] = C6_FixedAnalysis
            /\ Len(session[r].pushed) >= 2 =>
                   session[r].pushed[2].analysis = C6_FixedAnalysis
            /\ res[r].status = 200 =>
                   res[r].analysis = C6_FixedAnalysis /\ TurnsStored(r)

\* a request answered 200 whose analysis call returned prose around a fenced
\* JSON object, with the fallback Analysis returned and stored
C6_Witness ==
    \E r \in Reqs :
        /\ Settled(r, AnalysisCall,
                   Resolved(<<ProseText, NL, FenceJson, NL, JsonObjectText, NL,
                              Fence>>))
        /\ res[r].status = 200
        /\ res[r].analysis = C6_FixedAnalysis
        /\ TurnsStored(r)
        /\ session[r].pushed[2].analysis = C6_FixedAnalysis

C7_FixedReply ==
    <<"I hear that you're looking for support with managing anxiety. That's a very common concern, and it's great that you're reaching out. There are several effective strategies we can explore together. What specific situations tend to trigger your anxiety the most?">>

\* C7: whenever the reply call failed, the assistant message built and
\* stored has the fixed fallback sentence as its content, and the reply in
\* the response is that sentence.
C7_FallbackReplyVerbatim ==
    \A r \in Reqs :
        Threw(r, ResponseCall) =>
            /\ response[r] = C7_FixedReply
            /\ Len(session[r].pushed) >= 2 =>
                   session[r].pushed[2].content = C7_FixedReply
            /\ res[r].status = 200 =>
                   /\ res[r].response = C7_FixedReply
                   /\ res[r].message = C7_FixedReply
                   /\ TurnsStored(r)

\* a request answered 200 whose reply call failed, the fallback sentence
\* stored and returned
C7_Witness ==
    \E r \in Reqs :
        /\ Threw(r, ResponseCall)
        /\ res[r].status = 200
        /\ res[r].response = C7_FixedReply
        /\ TurnsStored(r)
        /\ session[r].pushed[2].content = C7_FixedReply

\* C8: in each combination of analysis outcome and reply outcome the caller
\* gets a reply and an Analysis: the oracle's reply text exactly when the
\* reply call succeeded, the oracle's value exactly when the analysis
\* answer was JSON, the fallbacks otherwise.
C8_IndependentFallbacks ==
    \A r \in Reqs :
        Done(r) /\ Admitted(r) /\ ~DatabaseFailed(r) =>
            /\ res[r].status = 200
            /\ \A t \in ResponseTexts :
                   Settled(r, ResponseCall, Resolved(t)) =>
                       res[r].response = Trim(t)
            /\ Threw(r, ResponseCall) => res[r].response = C7_FixedReply
            /\ C6_AnalysisUnusable(r) => res[r].analysis = C6_FixedAnalysis
            /\ \A t \in AnalysisTexts \ C6_NonJsonTexts :
                   Settled(r, AnalysisCall, Resolved(t)) =>
                       res[r].analysis = JsonParse(CleanAnalysisText(Trim(t)))

\* request a and request b got the same outcomes from the oracle and from
\* save()
C9_SameOutcomes(a, b) ==
    /\ Len(calls[a]) = Len(calls[b])
    /\ \A i \in 2..Len(calls[a]) : calls[a][i] = calls[b][i]

\* C9: a failed telemetry publish never ends the pipeline, and two
\* submissions with the same input and the same oracle and save outcomes
\* send the same response and append the same messages, whatever the
\* publish did.
C9_TelemetryNeverMatters ==
    /\ \A r \in Reqs :
           Threw(r, "inngest.send") =>
               /\ Called(r, AnalysisCall)
               /\ Done(r) => Called(r, ResponseCall)
    /\ \A a, b \in Reqs :
           /\ Done(a) /\ Done(b)
           /\ Admitted(a) /\ Admitted(b)
           /\ req[a] = req[b]
           /\ C9_SameOutcomes(a, b)
           => /\ res[a] = res[b]
              /\ session[a].pushed = session[b].pushed
              /\ TurnsStored(a) <=> TurnsStored(b)

\* two equal submissions, the publish of one succeeded and of the other
\* threw, both answered 200 and both stored
C9_Witness ==
    \E a, b \in Reqs :
        /\ req[a] = req[b]
        /\ Settled(a, "inngest.send", Resolved(<<>>))
        /\ Threw(b, "inngest.send")
        /\ C9_SameOutcomes(a, b)
        /\ res[a].status = 200 /\ res[b].status = 200
        /\ TurnsStored(a) /\ TurnsStored(b)

\* a body message that is absent, no string, empty or only whitespace
C10_Unacceptable(message) ==
    \/ message.type \in {"undefined", "number"}
    \/ /\ message.type = "string"
       /\ \A i \in DOMAIN message.str : message.str[i] \in {SP, NL}

\* C10: a sendMessage with such a message is answered 400 at once, has made
\* no telemetry, oracle or save call, and the step that handles it leaves
\* the stored sessions as they were.
C10_InvalidMessageRejected ==
    /\ [](\A r \in Reqs :
            pc[r] # "idle" /\ C10_Unacceptable(req[r].message) =>
                /\ Done(r)
                /\ res[r].status = 400
                /\ calls[r] = <<>>
                /\ session[r] = NotLoaded)
    /\ [][\A r \in Reqs :
            pc[r] # pc'[r] /\ C10_Unacceptable(req'[r].message) =>
                store' = store]_vars

\* a whitespace-only message sent by the owner to an existing session was
\* answered 400
C10_Witness ==
    \E r \in Reqs :
        /\ req[r].op = "sendMessage"
        /\ req[r].sessionId = "s1" /\ req[r].user = "u1"
        /\ req[r].message = JsStringMessage(<<SP>>)
        /\ res[r].status = 400
        /\ store["s1"].messages = <<>>

(***************************************************************************)
(* C11: mutating operations of a caller who is not the owner               *)
(***************************************************************************)
C11_MutatingOps == {"sendMessage", "updateSessionTopic", "deleteChatSession"}

\* request r is a mutating operation of an authenticated caller on a stored
\* session of another user
C11_NonOwner(r) ==
    /\ req[r].op \in C11_MutatingOps
    /\ req[r].user \in Users
    /\ store[req[r].sessionId].exists
    /\ store[req[r].sessionId].userId # req[r].user

\* the body of request r passes the validation of its handler
C11_BodyAccepted(r) ==
    CASE req[r].op = "sendMessage" -> ~InvalidMessage(req[r].message)
      [] req[r].op = "updateSessionTopic" -> ~InvalidTopic(req[r].topic)
      [] OTHER -> TRUE

\* C11: a sendMessage, updateSessionTopic or deleteChatSession of an
\* authenticated caller on a session owned by somebody else is answered
\* 403 (its body being one the handler accepts), never succeeds, makes no
\* save or delete call, and no step of it changes the stored sessions:
\* same messages, same topic, still present.
C11_NonOwnerForbidden ==
    /\ [](\A r \in Reqs :
            C11_NonOwner(r) =>
                /\ ~Called(r, "session.save")
                /\ ~Called(r, "ChatSession.deleteOne")
                /\ Done(r) => /\ res[r].status \in {400, 403}
                              /\ C11_BodyAccepted(r) => res[r].status = 403)
    /\ [][\A r \in Reqs :
            pc[r] # pc'[r] /\ C11_NonOwner(r)' => store' = store]_vars

\* u2 asked to delete the session of u1, was answered 403, and the session
\* is still stored
C11_Witness ==
    \E r \in Reqs :
        /\ req[r].op = "deleteChatSession"
        /\ req[r].sessionId = "s1" /\ req[r].user = "u2"
        /\ Done(r)
        /\ res[r].status = 403
        /\ store["s1"].exists /\ store["s1"].userId = "u1"

(***************************************************************************)
(* C12: reads of a caller who is not the owner                             *)
(***************************************************************************)
C12_ReadOps == {"getChatSession", "getChatHistory"}

\* C12: whenever getChatSession or getChatHistory answers with success,
\* and so returns the session read by findOne with its messages, the
\* caller is the owner of that session.
C12_ReadsOnlyByOwner ==
    [][\A r \in Reqs :
          /\ req[r].op \in C12_ReadOps
          /\ pc[r] # "done" /\ pc'[r] = "done"
          /\ res'[r].status = 200
          => store[req[r].sessionId].userId = req[r].user]_vars

(***************************************************************************)
(* C13: two sendMessage requests on the same session                       *)
(***************************************************************************)
\* sendMessage r has completed with success
C13_Succeeded(r) ==
    req[r].op = "sendMessage" /\ Done(r) /\ res[r].status = 200

\* the messages that request r found in the session when it loaded it
C13_Loaded(r) ==
    SubSeq(session[r].doc.messages, 1,
           Len(session[r].doc.messages) - Len(session[r].pushed))

\* the stored session holds the two turns of request r from position i on
C13_TurnsAt(r, i) ==
    /\ i + 1 <= Len(StoredMessages(r))
    /\ Len(session[r].pushed) = 2
    /\ StoredMessages(r)[i] = UserTurn(r)
    /\ StoredMessages(r)[i + 1] = session[r].pushed[2]
    /\ StoredMessages(r)[i + 1].role = "assistant"

\* C13: once two sendMessage requests on the same session have both
\* succeeded, in whatever interleaving of their steps, the stored session
\* holds the user turn and the assistant turn of each of them at positions
\* of their own, and it still begins with the messages that each of them
\* found when it loaded the session.
C13_ConcurrentAppendsBothKept ==
    \A a, b \in Reqs :
        /\ a # b
        /\ C13_Succeeded(a) /\ C13_Succeeded(b)
        /\ req[a].sessionId = req[b].sessionId
        => /\ \E i, j \in DOMAIN StoredMessages(a) :
                /\ i + 1 < j \/ j + 1 < i
                /\ C13_TurnsAt(a, i)
                /\ C13_TurnsAt(b, j)
           /\ \A r \in {a, b} :
                /\ Len(C13_Loaded(r)) <= Len(StoredMessages(r))
                /\ SubSeq(StoredMessages(r), 1, Len(C13_Loaded(r)))
                       = C13_Loaded(r)

\* two requests each loaded the session while it was empty, and both have
\* succeeded: the session holds four messages
C13_Witness ==
    \E a, b \in Reqs :
        /\ a # b
        /\ C13_Succeeded(a) /\ C13_Succeeded(b)
        /\ req[a].sessionId = req[b].sessionId
        /\ C13_Loaded(a) = <<>> /\ C13_Loaded(b) = <<>>
        /\ Len(StoredMessages(a)) = 4

(***************************************************************************)
(* C14: the stored message list only grows                                 *)
(***************************************************************************)
\* list s is the beginning of list t
C14_IsPrefix(s, t) == Len(s) <= Len(t) /\ SubSeq(t, 1, Len(s)) = s

\* C14: in every step of any request (sendMessage, updateSessionTopic,
\* getChatSession, getChatHistory, deleteChatSession on another session),
\* the message list of a session that is stored before and after the step
\* is extended at its end or left as it is: no stored message is removed,
\* reordered or modified.  Prefixes compose, so the list of any earlier
\* state is a prefix of the list of any later state.
C14_MessagesAppendOnly ==
    [][\A id \in SessionIds :
          store[id].exists /\ store'[id].exists =>
              C14_IsPrefix(store[id].messages, store'[id].messages)]_vars

\* the owner changed the topic through a copy of the session loaded while
\* it was empty, a sendMessage stored its two turns: the turns are there
C14_Witness ==
    \E a, b \in Reqs :
        /\ C13_Succeeded(a)
        /\ req[b].op = "updateSessionTopic" /\ Done(b) /\ res[b].status = 200
        /\ req[a].sessionId = req[b].sessionId
        /\ store[req[a].sessionId].topic # <<>>
        /\ session[b].doc.messages = <<>>
        /\ store[req[a].sessionId].messages = session[a].pushed
        /\ Len(session[a].pushed) = 2

(***************************************************************************)
(* C15: requests on a deleted session                                      *)
(***************************************************************************)
\* deleteChatSession a of the owner has succeeded
C15_DeleteSucceeded(a) ==
    req[a].op = "deleteChatSession" /\ Done(a) /\ res[a].status = 200

C15_LaterOps == {"getChatSession", "getChatHistory", "sendMessage"}
\* the request awaits the answer of its findOne
C15_Lookup == {"findOne", "get.findOne", "history.findOne"}

\* C15: once a deleteChatSession has succeeded for a session identifier,
\* no session is stored under it any more, and every getChatSession,
\* getChatHistory and sendMessage for that identifier that starts from then
\* on goes to its lookup and is answered 404 by it (401 without a caller,
\* 400 for a sendMessage without a message, both before the lookup).
C15_NotFoundAfterDelete ==
    /\ [](\A a \in Reqs :
            C15_DeleteSucceeded(a) => ~store[req[a].sessionId].exists)
    /\ [][\A a, b \in Reqs :
            /\ C15_DeleteSucceeded(a)
            /\ req'[b].op \in C15_LaterOps
            /\ req'[b].sessionId = req[a].sessionId
            /\ pc'[b] # pc[b]
            => /\ pc[b] = "idle" =>
                    \/ pc'[b] \in C15_Lookup
                    \/ /\ pc'[b] = "done"
                       /\ res'[b].status =
                             IF req'[b].op = "sendMessage"
                                /\ InvalidMessage(req'[b].message)
                             THEN 400 ELSE 401
                       /\ req'[b].user = NoUser
                          \/ res'[b].status = 400
               /\ pc[b] \in C15_Lookup =>
                    pc'[b] = "done" /\ res'[b].status = 404]_vars

\* the owner deleted session s1 and a sendMessage of the owner to s1 was
\* answered 404
C15_Witness ==
    \E a, b \in Reqs :
        /\ C15_DeleteSucceeded(a)
        /\ req[a].sessionId = "s1"
        /\ req[b].op = "sendMessage" /\ req[b].sessionId = "s1"
        /\ req[b].user = "u1"
        /\ Done(b) /\ res[b].status = 404

(***************************************************************************)
(* C16: the stored topic                                                   *)
(***************************************************************************)
\* no stored topic is longer than 100 characters (an absent topic is <<>>)
C16_TopicBounded ==
    \A id \in SessionIds : Len(store[id].topic) <= TopicMaxLength

\* updateSessionTopic r answers in this step, with success
C16_Answers(r) ==
    /\ req[r].op = "updateSessionTopic"
    /\ pc[r] = "topic.save" /\ pc'[r] = "done"
    /\ res'[r].status = 200

\* C16 as stated: no stored topic exceeds 100 characters, and a successful
\* updateSessionTopic has stored the first 100 characters of the topic of
\* the request and returns what it stored.
C16_StoresTruncatedTopic ==
    /\ []C16_TopicBounded
    /\ [][\A r \in Reqs :
            C16_Answers(r) =>
                /\ store'[req[r].sessionId].topic
                       = Substring(req[r].topic.str, TopicMaxLength)
                /\ res'[r].topic = store'[req[r].sessionId].topic]_vars

\* C16, amended: no stored topic exceeds 100 characters; a successful
\* updateSessionTopic has stored the topic of the request without its
\* leading and trailing whitespace, cut to its first 100 characters, and
\* returns what it stored; an updateSessionTopic is refused
\* with 400 exactly when that trimmed topic is empty or not a text.
C16_StoresTrimmedTruncatedTopic ==
    /\ []C16_TopicBounded
    /\ [][\A r \in Reqs :
            C16_Answers(r) =>
                /\ store'[req[r].sessionId].topic
                       = Substring(Trim(req[r].topic.str), TopicMaxLength)
                /\ store'[req[r].sessionId].topic # <<>>
                /\ res'[r].topic = store'[req[r].sessionId].topic]_vars
    /\ [](\A r \in Reqs :
            req[r].op = "updateSessionTopic" /\ Done(r) =>
                (res[r].status = 400 <=>
                    \/ req[r].topic.type # "string"
                    \/ Trim(req[r].topic.str) = <<>>))

\* the owner sent a space, 100 times "a" and a "b": the stored and the
\* returned topic are the 100 times "a"
C16_Witness ==
    \E r \in Reqs :
        /\ req[r].op = "updateSessionTopic"
        /\ req[r].topic.str
               = <<SP>> \o Repeat("a", TopicMaxLength) \o <<"b">>
        /\ Done(r) /\ res[r].status = 200
        /\ store[req[r].sessionId].topic = Repeat("a", TopicMaxLength)
        /\ res[r].topic = Repeat("a", TopicMaxLength)

(***************************************************************************)
(* C17: generateTopic when the oracle fails                                *)
(***************************************************************************)
C17_CantSleep ==
    <<"I", SP, "c", "a", "n", "'", "t", SP, "s", "l", "e", "e", "p", SP,
      "a", "t", SP, "n", "i", "g", "h", "t">>

\* the oracle call of generateTopic r was made and failed
C17_OracleFailed(r) ==
    req[r].op = "generateTopic" /\ Threw(r, TopicCall)

\* C17: whenever the oracle call of a generateTopic has failed, the request
\* (authenticated, with a non-empty message list, or the call would not
\* have been made) is answered 200 with nothing but a topic, that topic is
\* the value of generateFallbackTopic for the messages of the request, and
\* generateFallbackTopic has not thrown; for the single user message
\* "I can't sleep at night" the topic is the label "Sleep Issues".
C17_FallbackTopicOnOracleFailure ==
    \A r \in Reqs :
        C17_OracleFailed(r) =>
            /\ req[r].user \in Users
            /\ Len(req[r].messages.items) > 0
            /\ Done(r)
            /\ res[r].status = 200
            /\ res[r].keys = {"topic"}
            /\ ~generateFallbackTopic(req[r].messages).threw
            /\ res[r].topic = generateFallbackTopic(req[r].messages).topic
            /\ req[r].messages.items
                   = <<TopicMessage("user", JsStringMessage(C17_CantSleep))>>
               => res[r].topic = <<"[sleeping face] Sleep Issues">>

\* the oracle failed for the single user message "I can't sleep at night"
\* and the answer is the label "Sleep Issues"
C17_Witness ==
    \E r \in Reqs :
        /\ C17_OracleFailed(r)
        /\ req[r].messages.items
               = <<TopicMessage("user", JsStringMessage(C17_CantSleep))>>
        /\ res[r].status = 200
        /\ res[r].topic = <<"[sleeping face] Sleep Issues">>

(***************************************************************************)
(* C18: generateFallbackTopic                                              *)
(***************************************************************************)
C18_JobAnxious ==
    <<"m", "y", SP, "j", "o", "b", SP, "m", "a", "k", "e", "s", SP, "m",
      "e", SP, "a", "n", "x", "i", "o", "u", "s">>
C18_Anxious == <<"a", "n", "x", "i", "o", "u", "s">>

\* generateTopic r was answered with the value of generateFallbackTopic:
\* the oracle call failed, or the prompt could not be built
C18_FallbackAnswered(r) ==
    /\ req[r].op = "generateTopic"
    /\ Done(r) /\ res[r].status = 200
    /\ Threw(r, TopicCall) \/ ~Called(r, TopicCall)

C18_UserPositions(items) == {i \in DOMAIN items : items[i].role = "user"}
\* the first message of role user
C18_FirstUser(items) ==
    items[CHOOSE i \in C18_UserPositions(items) :
              \A j \in C18_UserPositions(items) : i <= j]
\* the list of that message alone, its text in upper or in lower case
C18_Alone(msg, upper) ==
    [type |-> "array",
     items |-> <<TopicMessage("user",
                    JsStringMessage(IF upper THEN ToUpperCase(msg.content.str)
                                    ELSE ToLowerCase(msg.content.str)))>>]
\* the entries of topicMap whose keyword occurs in the text, in any case
C18_Occurring(text) ==
    {n \in DOMAIN topicMap : Includes(ToLowerCase(text), topicMap[n].keyword)}

\* C18: the topic that generateFallbackTopic gives for a message list is
\* the generic label when the list has no message of role user; otherwise
\* it is the topic it gives for the first user message alone, whatever
\* the other messages are, and the same for that message in upper case and
\* in lower case; when keywords of the map occur in that message, it is
\* the label of the occurring keyword that is earliest in the map, wherever
\* the keywords stand in the text; when "anxious" occurs, it is the label
\* "Anxiety Support".
C18_FirstUserMessageFirstKeyword ==
    \A r \in Reqs :
        C18_FallbackAnswered(r) =>
            LET items == req[r].messages.items
            IN  IF C18_UserPositions(items) = {}
                THEN res[r].topic = NewChatTopic
                ELSE LET msg == C18_FirstUser(items)
                         occurring == C18_Occurring(msg.content.str)
                     IN  /\ msg.content.type = "string"
                         /\ \A upper \in BOOLEAN :
                              res[r].topic
                                = generateFallbackTopic(C18_Alone(msg, upper)).topic
                         /\ occurring # {} =>
                              \E n \in occurring :
                                /\ \A m \in occurring : n <= m
                                /\ res[r].topic = <<topicMap[n].topic>>
                         /\ Includes(ToLowerCase(msg.content.str), C18_Anxious)
                              => res[r].topic = <<"[thought] Anxiety Support">>

\* after an assistant message about sleep, the first user message is
\* "my job makes me anxious": the answer is the label "Anxiety Support",
\* neither that of job nor that of sleep
C18_Witness ==
    \E r \in Reqs :
        /\ C18_FallbackAnswered(r)
        /\ Threw(r, TopicCall)
        /\ req[r].messages.items
               = <<TopicMessage("assistant", JsStringMessage(C17_CantSleep)),
                   TopicMessage("user", JsStringMessage(C18_JobAnxious))>>
        /\ res[r].topic = <<"[thought] Anxiety Support">>

(***************************************************************************)
(* C19: the shape of the stored messages                                   *)
(***************************************************************************)
\* the value is an Analysis with all of its five fields
C19_FullAnalysis(value) ==
    value.kind = "object" /\ value.has = AnalysisFields

\* C19: every stored message has role user or assistant; a stored user
\* message has no metadata; a stored assistant message has metadata with
\* an Analysis of all five fields and a progress whose emotionalState and
\* riskLevel are those of that Analysis; the progress in the response of a
\* successful sendMessage is the progress stored with its assistant turn.
C19_StoredMessagesShaped ==
    /\ \A id \in SessionIds :
         \A i \in DOMAIN store[id].messages :
            LET m == store[id].messages[i]
            IN  /\ m.role \in {"user", "assistant"}
                /\ m.role = "user" =>
                     ~m.hasMetadata /\ m.analysis = JsUndefined
                                    /\ m.progress = NoProgress
                /\ m.role = "assistant" =>
                     /\ m.hasMetadata
                     /\ C19_FullAnalysis(m.analysis)
                     /\ m.progress.has = {"emotionalState", "riskLevel"}
                     /\ m.progress.emotionalState = m.analysis.emotionalState
                     /\ m.progress.riskLevel = m.analysis.riskLevel
    /\ \A r \in Reqs :
         C13_Succeeded(r) =>
            /\ Len(session[r].pushed) = 2
            /\ res[r].progress = session[r].pushed[2].progress
            /\ \E i \in DOMAIN StoredMessages(r) :
                  StoredMessages(r)[i] = session[r].pushed[2]

(***************************************************************************)
(* C20: the order of the oracle calls of one sendMessage                   *)
(***************************************************************************)
\* the number of calls `name` in the log of request r
C20_Count(r, name) ==
    Cardinality({i \in DOMAIN calls[r] : calls[r][i].name = name})

\* request r has appended its assistant turn
C20_AssistantAppended(r) ==
    \E i \in DOMAIN session[r].pushed : session[r].pushed[i].role = "assistant"

\* C20: a sendMessage calls the oracle at most once with the analysis
\* prompt and at most once with the reply prompt, also when a call has
\* failed; when the reply call is issued the analysis call has settled,
\* with a text or with a failure, and the variable analysis has its value;
\* when the assistant turn is appended both calls have settled.
C20_OracleCallsInOrder ==
    \A r \in Reqs :
        req[r].op = "sendMessage" =>
            /\ C20_Count(r, AnalysisCall) <= 1
            /\ C20_Count(r, ResponseCall) <= 1
            /\ \A i, j \in DOMAIN calls[r] :
                  calls[r][i].name = AnalysisCall /\ calls[r][j].name = ResponseCall
                      => i < j /\ calls[r][i].outcome # Pending
            /\ Called(r, ResponseCall) =>
                  /\ Called(r, AnalysisCall)
                  /\ Threw(r, AnalysisCall) => analysis[r] = FallbackAnalysis
            /\ C20_AssistantAppended(r) =>
                  /\ Called(r, AnalysisCall) /\ Called(r, ResponseCall)
                  /\ \A i \in DOMAIN calls[r] :
                        calls[r][i].name \in {AnalysisCall, ResponseCall}
                            => calls[r][i].outcome # Pending

\* both oracle calls of a sendMessage failed, one after the other, each
\* made once, and the assistant turn was then appended
C20_Witness ==
    \E r \in Reqs :
        /\ req[r].op = "sendMessage"
        /\ Threw(r, AnalysisCall) /\ Threw(r, ResponseCall)
        /\ C20_Count(r, AnalysisCall) = 1 /\ C20_Count(r, ResponseCall) = 1
        /\ C20_AssistantAppended(r)

(***************************************************************************)
(* C21: the order of the checks of sendMessage                             *)
(***************************************************************************)
\* the answer that the first failing check of request r gives, 0 when
\* all four checks pass
C21_FirstFailure(r) ==
    IF InvalidMessage(req[r].message) THEN 400
    ELSE IF req[r].user = NoUser THEN 401
    ELSE IF ~store[req[r].sessionId].exists THEN 404
    ELSE IF store[req[r].sessionId].userId # req[r].user THEN 403
    ELSE 0

\* C21: a sendMessage in which one of the checks fails is answered with the
\* status of the first failing check in the order message (400), caller
\* (401), session found (404), owner (403), with nothing but a message, and
\* has loaded no session and made no call; a sendMessage in which all pass
\* is answered neither 400, 401, 404 nor 403.  So an invalid message of an
\* unauthenticated caller gives 400, a valid message of an unauthenticated
\* caller to a missing session gives 401, and a missing session gives 404.
C21_FirstFailingCheckReported ==
    \A r \in Reqs :
        req[r].op = "sendMessage" /\ pc[r] # "idle" =>
            IF C21_FirstFailure(r) # 0
            THEN /\ C21_FirstFailure(r) \in {400, 401} => Done(r)
                 /\ Done(r) => /\ res[r].status = C21_FirstFailure(r)
                               /\ res[r].keys = {"message"}
                               /\ session[r] = NotLoaded
                               /\ calls[r] = <<>>
            ELSE Done(r) => res[r].status \notin {400, 401, 403, 404}

\* an unauthenticated caller sent a valid message to a session that does
\* not exist and was answered 401
C21_Witness ==
    \E r \in Reqs :
        /\ req[r].op = "sendMessage"
        /\ ~InvalidMessage(req[r].message)
        /\ req[r].user = NoUser
        /\ ~store[req[r].sessionId].exists
        /\ Done(r) /\ res[r].status = 401

(***************************************************************************)
(* C22: the stored messages come in pairs                                  *)
(***************************************************************************)
\* C22: whatever the interleaving of the requests and whichever of the
\* telemetry, oracle and save calls fail, the stored message list of every
\* session has an even length and is made of pairs: a user turn, directly
\* followed by an assistant turn, and the pair is the two messages that one
\* sendMessage pushed and saved together.
C22_StoredInPairs ==
    \A id \in SessionIds :
        LET messages == store[id].messages
        IN  /\ Len(messages) % 2 = 0
            /\ \A i \in DOMAIN messages :
                  i % 2 = 1 =>
                      /\ messages[i].role = "user"
                      /\ messages[i + 1].role = "assistant"
                      /\ \E r \in Reqs :
                            /\ req[r].op = "sendMessage"
                            /\ req[r].sessionId = id
                            /\ session[r].pushed
                                   = <<messages[i], messages[i + 1]>>

\* of two sendMessage requests on one session the save of one succeeded
\* and the save of the other failed: the session holds the pair of the
\* former and nothing of the latter
C22_Witness ==
    \E a, b \in Reqs :
        /\ a # b
        /\ req[a].sessionId = req[b].sessionId
        /\ C13_Succeeded(a)
        /\ req[b].op = "sendMessage" /\ DatabaseFailed(b)
        /\ Len(session[b].pushed) = 2
        /\ StoredMessages(a) = session[a].pushed

(***************************************************************************)
(* C23: a deleted session and the writes in flight                         *)
(***************************************************************************)
\* request w has loaded the session and has not yet saved it, or has
\* saved it since
C23_Loaded(w, id) ==
    /\ req[w].op \in {"sendMessage", "updateSessionTopic"}
    /\ session[w].doc.exists
    /\ session[w].doc.sessionId = id

\* C23: no step stores anything under an identifier under which no session
\* is stored, so the save of a sendMessage or updateSessionTopic that had
\* loaded the session before its deletion does not bring it back; once
\* deleteChatSession has succeeded the session stays absent, whatever the
\* writes in flight do, and a getChatSession or getChatHistory whose
\* lookup comes after is answered 404.
C23_NeverResurrected ==
    /\ [][\A id \in SessionIds :
            ~store[id].exists => store'[id] = store[id]]_vars
    /\ [](\A d \in InFlightReqs :
            C15_DeleteSucceeded(d) => store[req[d].sessionId] = NoSession)
    /\ [][\A d, f \in InFlightReqs :
            /\ C15_DeleteSucceeded(d)
            /\ req[f].sessionId = req[d].sessionId
            /\ pc[f] \in {"get.findOne", "history.findOne"}
            /\ pc'[f] # pc[f]
            => pc'[f] = "done" /\ res'[f].status = 404]_vars

\* the owner's sendMessage loaded session s1, the session was deleted,
\* the save of the sendMessage failed, and a getChatSession for s1 was
\* answered 404: s1 is not stored
C23_Witness ==
    \E w, d, f \in InFlightReqs :
        /\ C15_DeleteSucceeded(d) /\ req[d].sessionId = "s1"
        /\ req[w].op = "sendMessage" /\ C23_Loaded(w, "s1")
        /\ Len(session[w].pushed) = 2
        /\ Done(w) /\ Threw(w, "session.save")
        /\ req[f].op = "getChatSession" /\ req[f].sessionId = "s1"
        /\ Done(f) /\ res[f].status = 404
        /\ store["s1"] = NoSession

(***************************************************************************)
(* C24: what updateSessionTopic changes                                    *)
(***************************************************************************)
\* C24: a step of an updateSessionTopic leaves every other session as it
\* is and changes nothing of the addressed session but its topic: the
\* messages, among them those that a concurrent sendMessage has stored
\* since the update loaded the session, the owner, the identifier and the
\* status stay as they are.
C24_OnlyTopicChanges ==
    [][\A r \in Reqs :
          req'[r].op = "updateSessionTopic" /\ pc'[r] # pc[r] =>
              /\ \A id \in SessionIds \ {req'[r].sessionId} :
                    store'[id] = store[id]
              /\ LET before == store[req'[r].sessionId]
                     after == store'[req'[r].sessionId]
                 IN  /\ after.messages = before.messages
                     /\ after.userId = before.userId
                     /\ after.sessionId = before.sessionId
                     /\ after.status = before.status
                     /\ after.exists = before.exists
                     /\ after = [before EXCEPT !.topic = after.topic]]_vars

\* an updateSessionTopic and a sendMessage each loaded the session before
\* the other saved, and both succeeded: the session has the new topic and
\* the two turns of the sendMessage
C24_Witness ==
    \E a, b \in Reqs :
        /\ req[a].sessionId = req[b].sessionId
        /\ C13_Succeeded(a)
        /\ session[a].doc.topic = <<>>
        /\ req[b].op = "updateSessionTopic" /\ Done(b) /\ res[b].status = 200
        /\ session[b].doc.messages = <<>>
        /\ store[req[b].sessionId].topic = NewTopic(req[b].topic)
        /\ store[req[b].sessionId].messages = session[a].pushed
        /\ Len(session[a].pushed) = 2
        /\ store[req[b].sessionId].status = "active"

=============================================================================
